---- MODULE Spec2Model ----
(***************************************************************************)
(* rainsensor.cpp: main() parses the command line with getopt and then     *)
(* count_rain() polls a pulse counter once per interval, keeps the deltas  *)
(* in a circular vector of 60 / interval buckets, sums them and writes the *)
(* resulting rate to a file and/or to the console.                         *)
(*                                                                         *)
(* Strings are tuples of one-character strings, so that getopt and atoi    *)
(* are computed character by character.  A double is held in thousandths.  *)
(***************************************************************************)
EXTENDS Integers, Sequences, FiniteSets, TLC

VARIABLES
    argv,                \* argv[1..argc-1], the program name left out
    posixly_correct,     \* environment: getopt stops at the first non-option
    optind,              \* getopt: index of the next argv element
    nextchar,            \* getopt: next character inside a clustered element, 0 = none
    options,             \* option_t
    pc,                  \* "main" | "count_rain" | "sleep" | "exit"
    exit_status,         \* argument of exit(), -1 while running
    help,                \* whether the help text went to std::cout
    stderr,              \* lines written to std::cerr
    buckets,             \* bucket_vec_t buckets
    inserter,            \* inserter - buckets.begin()
    last_event_counter,
    events_per_hour,     \* value of the local of the last tick
    mm_per_hour,         \* value of the local of the last tick, in thousandths
    is_open,             \* out.is_open() of the last tick: "none" | "yes" | "no"
    file,                \* lines of the output file
    console,             \* lines written to std::cout by count_rain
    reads,               \* every counter.get_count() result, the baseline first
    events_log           \* the local `events` of every tick

vars == <<argv, posixly_correct, optind, nextchar, options, pc, exit_status, help,
          stderr, buckets, inserter, last_event_counter, events_per_hour,
          mm_per_hour, is_open, file, console, reads, events_log>>

rainVars == <<buckets, inserter, last_event_counter, events_per_hour, mm_per_hour,
              is_open, file, console, reads, events_log>>

----------------------------------------------------------------------------
(* Bounds of the model *)

MaxArgs == 3        \* longest free-form command line, in argv elements
MaxTicks == 4       \* loop iterations explored

\* counter values get_count() may return: idle, one pulse, a burst
CounterValues == {0, 1, 10}

----------------------------------------------------------------------------
(* Characters and strings *)

Digits == <<"0", "1", "2", "3", "4", "5", "6", "7", "8", "9">>

IsDigit(c) == \E d \in 1..10 : Digits[d] = c

DigitVal(c) == (CHOOSE d \in 1..10 : Digits[d] = c) - 1

RECURSIVE Itoa(_)
Itoa(n) == IF n < 10 THEN <<Digits[n + 1]>>
           ELSE Itoa(n \div 10) \o <<Digits[(n % 10) + 1]>>

RECURSIVE AtoiDigits(_, _, _)
AtoiDigits(s, i, acc) ==
    IF i > Len(s) \/ ~IsDigit(s[i]) THEN acc
    ELSE AtoiDigits(s, i + 1, 10 * acc + DigitVal(s[i]))

\* atoi(optarg): optional sign, then the leading decimal digits; 0 if there are none
atoi(s) ==
    IF s = <<>> THEN 0
    ELSE IF s[1] = "-" THEN 0 - AtoiDigits(s, 2, 0)
    ELSE IF s[1] = "+" THEN AtoiDigits(s, 2, 0)
    ELSE AtoiDigits(s, 1, 0)

----------------------------------------------------------------------------
(* getopt(argc, argv, "b:c:f:hi:p:s:") *)

\* the option string of the call: option character -> whether it takes an argument
OptString ==
    [c \in {"b", "c", "f", "h", "i", "p", "s"} |-> c # "h"]

\* the options as the help text documents them: -p stands alone
HelpText ==
    [c \in {"b", "c", "f", "h", "i", "p", "s"} |-> c \notin {"h", "p"}]

IsOptionElement(s) == Len(s) >= 2 /\ s[1] = "-"

RECURSIVE NextElement(_, _, _)
\* index of the element getopt looks at next, Len(av) + 1 if the scan is over;
\* without POSIXLY_CORRECT non-option elements are skipped (permuted to the end)
NextElement(av, i, posix) ==
    IF i > Len(av) THEN Len(av) + 1
    ELSE IF IsOptionElement(av[i]) THEN i
    ELSE IF posix THEN Len(av) + 1
    ELSE NextElement(av, i + 1, posix)

\* one call of getopt: [opt, optarg, optind, nextchar]; opt "EOF" stands for -1
getopt(av, oi, nc, posix, optstring) ==
    LET i   == IF nc = 0 THEN NextElement(av, oi, posix) ELSE oi
        pos == IF nc = 0 THEN 2 ELSE nc
    IN  IF i > Len(av)
        THEN [opt |-> "EOF", optarg |-> <<>>, optind |-> oi, nextchar |-> 0]
        ELSE IF nc = 0 /\ av[i] = <<"-", "-">>
        THEN [opt |-> "EOF", optarg |-> <<>>, optind |-> i + 1, nextchar |-> 0]
        ELSE
        LET s    == av[i]
            c    == s[pos]
            last == pos = Len(s)
        IN  IF c \notin DOMAIN optstring
            THEN [opt |-> "?", optarg |-> <<>>,
                  optind |-> IF last THEN i + 1 ELSE i,
                  nextchar |-> IF last THEN 0 ELSE pos + 1]
            ELSE IF ~optstring[c]
            THEN [opt |-> c, optarg |-> <<>>,
                  optind |-> IF last THEN i + 1 ELSE i,
                  nextchar |-> IF last THEN 0 ELSE pos + 1]
            ELSE IF ~last
            THEN [opt |-> c, optarg |-> SubSeq(s, pos + 1, Len(s)),
                  optind |-> i + 1, nextchar |-> 0]
            ELSE IF i + 1 <= Len(av)
            THEN [opt |-> c, optarg |-> av[i + 1], optind |-> i + 2, nextchar |-> 0]
            ELSE [opt |-> "?", optarg |-> <<>>, optind |-> i + 1, nextchar |-> 0]

----------------------------------------------------------------------------
(* main: the cases of the switch.  Each yields the options after the case, *)
(* the exit status (-1: break, go on parsing), the error line and whether  *)
(* the help text was printed.                                              *)

DefaultOptions ==
    [filename |-> <<>>, print_to_console |-> FALSE, interval |-> 5,
     gpio_pin |-> 0, milliliter |-> 5, sqcm |-> 127]

Go(o) == [options |-> o, status |-> -1, err |-> <<>>, help |-> FALSE]

Fail(o, what, value) ==
    [options |-> o, status |-> 1, err |-> <<[what |-> what, value |-> value]>>,
     help |-> FALSE]

MilliliterValid(n) == ~(n < 1 \/ n > 1000)

GpioValid(n) == ~(n < 0 \/ n > 63)

\* mutant: the upper limit off by one
IntervalValidOffByOne(n) == ~(n < 1 \/ n > 61)

IntervalValid(n) == ~(n < 1 \/ n > 60)

SqcmValid(n) == ~(n < 1 \/ n > 10000)

CaseB(o, optarg) ==
    LET o2 == [o EXCEPT !.milliliter = atoi(optarg)]
    IN  IF MilliliterValid(o2.milliliter) THEN Go(o2)
        ELSE Fail(o2, "milliliter", o2.milliliter)

CaseC(o, optarg) ==
    LET o2 == [o EXCEPT !.gpio_pin = atoi(optarg)]
    IN  IF GpioValid(o2.gpio_pin) THEN Go(o2)
        ELSE Fail(o2, "gpio", o2.gpio_pin)

CaseF(o, optarg) == Go([o EXCEPT !.filename = optarg])

CaseHelp(o) == [options |-> o, status |-> 0, err |-> <<>>, help |-> TRUE]

CaseI(o, optarg) ==
    LET o2 == [o EXCEPT !.interval = atoi(optarg)]
    IN  IF IntervalValid(o2.interval) THEN Go(o2)
        ELSE Fail(o2, "interval", o2.interval)

CaseP(o) == Go([o EXCEPT !.print_to_console = TRUE])

CaseS(o, optarg) ==
    LET o2 == [o EXCEPT !.sqcm = atoi(optarg)]
    IN  IF SqcmValid(o2.sqcm) THEN Go(o2)
        ELSE Fail(o2, "square centimeters", o2.sqcm)

Switch(o, g) ==
    CASE g.opt = "b" -> CaseB(o, g.optarg)
      [] g.opt = "c" -> CaseC(o, g.optarg)
      [] g.opt = "f" -> CaseF(o, g.optarg)
      [] g.opt = "i" -> CaseI(o, g.optarg)
      [] g.opt = "p" -> CaseP(o)
      [] g.opt = "s" -> CaseS(o, g.optarg)
      [] OTHER       -> CaseHelp(o)

\* what a complete run of the option loop ends in, for a given option string:
\* status -1 means count_rain is called with the options
RECURSIVE ParseAll(_, _, _, _, _, _)
ParseAll(av, oi, nc, posix, optstring, o) ==
    LET g == getopt(av, oi, nc, posix, optstring)
    IN  IF g.opt = "EOF" THEN [options |-> o, status |-> -1]
        ELSE LET r == Switch(o, g)
             IN  IF r.status # -1 THEN [options |-> r.options, status |-> r.status]
                 ELSE ParseAll(av, g.optind, g.nextchar, posix, optstring, r.options)

----------------------------------------------------------------------------
(* count_rain: the pieces of one loop iteration *)

\* mutant: the bucket count rounded up
BucketCountRoundedUp(interval) == (60 + interval - 1) \div interval

\* buckets.resize(60 / options.interval)
BucketCount(interval) == 60 \div interval

\* mutant: no reset on overflow
BaselineKept(new, last) == last

\* if (new_event_counter < last_event_counter) last_event_counter = 0;
Baseline(new, last) == IF new < last THEN 0 ELSE last

\* unsigned long events = new_event_counter - last_event_counter;
Events(new, last) == new - Baseline(new, last)

\* *inserter++ = events;
Store(b, ins, events) == [b EXCEPT ![ins + 1] = events]

\* mutant: the cursor wraps one slot early
AdvanceWrapsEarly(ins, n) == IF ins + 2 >= n THEN 0 ELSE ins + 1

\* inserter++ ; if (inserter == buckets.end()) inserter = buckets.begin();
Advance(ins, n) == IF ins + 1 = n THEN 0 ELSE ins + 1

RECURSIVE SumFrom(_, _)
SumFrom(b, i) == IF i > Len(b) THEN 0 ELSE b[i] + SumFrom(b, i + 1)

\* mutant: the sum starts at the second bucket
SumSkipsFirst(b) == SumFrom(b, 2)

\* for (it = buckets.begin(); it != buckets.end(); ++it) events_per_hour += *it;
SumBuckets(b) == SumFrom(b, 1)

\* double mm_per_hour = events_per_hour * options.sqcm * options.milliliter / 1000;
\* the right-hand side is evaluated in unsigned long, the quotient is then
\* converted to double (held here in thousandths)
MmPerHour(eph, sqcm, milliliter) == ((eph * sqcm * milliliter) \div 1000) * 1000

\* << std::setprecision(2) << std::fixed << mm_per_hour : <<whole, hundredths>>
Fixed2(thousandths) ==
    LET h == (thousandths + 5) \div 10 IN <<h \div 100, h % 100>>

FileEnabled(o) == o.filename # <<>>

\* mutant: is_open() is tested outside the filename test
OpenFailsUnguarded(o, opened) == ~opened

\* if (!out.is_open()) { ... exit(1); } inside if (!options.filename.empty())
OpenFails(o, opened) == FileEnabled(o) /\ ~opened

\* mutant: the file is opened for appending
WriteFileAppending(f, v) == Append(f, [value |-> Fixed2(v), suffix |-> ""])

\* out.open(..., out | trunc); out << ... << std::endl; out.close();
WriteFile(f, v) == <<[value |-> Fixed2(v), suffix |-> ""]>>

\* mutant: the console line is printed unconditionally
ConsoleAlways(o) == TRUE

ConsoleEnabled(o) == o.print_to_console

\* std::cout << ... << mm_per_hour << " mm/m2" << std::endl;
PrintConsole(c, v) == Append(c, [value |-> Fixed2(v), suffix |-> " mm/m2"])

----------------------------------------------------------------------------
(* Command lines *)

Opt(c) == <<"-", c>>

OutName == <<"o", "u", "t">>

\* elements of the free-form command lines
Elements ==
    {Opt(c) : c \in {"b", "c", "f", "h", "i", "p", "s"}}
    \cup {Itoa(n) : n \in {0, 5, 61, 64, 1001, 10001}}
    \cup {<<"-", "1">>, OutName, <<"-", "i", "6", "1">>, <<"-", "p", "h">>}

FreeForm == UNION {[1..n -> Elements] : n \in 0..MaxArgs}

\* every interval, with each combination of sinks
UsageLines ==
    {<<Opt("i"), Itoa(n)>> \o f \o p :
        n \in 1..60,
        f \in {<<>>, <<Opt("f"), OutName>>},
        p \in {<<>>, <<Opt("p"), OutName>>}}

CommandLines == FreeForm \cup UsageLines

----------------------------------------------------------------------------
(* The program *)

Init ==
    /\ argv \in CommandLines
    /\ posixly_correct \in BOOLEAN
    /\ optind = 1
    /\ nextchar = 0
    /\ options = DefaultOptions
    /\ pc = "main"
    /\ exit_status = -1
    /\ help = FALSE
    /\ stderr = <<>>
    /\ buckets = <<>>
    /\ inserter = 0
    /\ last_event_counter = 0
    /\ events_per_hour = 0
    /\ mm_per_hour = 0
    /\ is_open = "none"
    /\ file = <<>>
    /\ console = <<>>
    /\ reads = <<>>
    /\ events_log = <<>>

Got == getopt(argv, optind, nextchar, posixly_correct, OptString)

\* the effect of one case of the switch on main's state
MainCase(r, g) ==
    /\ options' = r.options
    /\ stderr' = stderr \o r.err
    /\ help' = r.help
    /\ exit_status' = r.status
    /\ pc' = IF r.status = -1 THEN "main" ELSE "exit"
    /\ optind' = g.optind
    /\ nextchar' = g.nextchar
    /\ UNCHANGED <<argv, posixly_correct>>
    /\ UNCHANGED rainVars

OptionB == pc = "main" /\ Got.opt = "b" /\ MainCase(CaseB(options, Got.optarg), Got)

OptionC == pc = "main" /\ Got.opt = "c" /\ MainCase(CaseC(options, Got.optarg), Got)

OptionF == pc = "main" /\ Got.opt = "f" /\ MainCase(CaseF(options, Got.optarg), Got)

OptionHelp == pc = "main" /\ Got.opt \in {"h", "?"} /\ MainCase(CaseHelp(options), Got)

OptionI == pc = "main" /\ Got.opt = "i" /\ MainCase(CaseI(options, Got.optarg), Got)

OptionP == pc = "main" /\ Got.opt = "p" /\ MainCase(CaseP(options), Got)

OptionS == pc = "main" /\ Got.opt = "s" /\ MainCase(CaseS(options, Got.optarg), Got)

\* getopt returned -1: main calls count_rain(options)
CallCountRain ==
    /\ pc = "main"
    /\ Got.opt = "EOF"
    /\ pc' = "count_rain"
    /\ optind' = Got.optind
    /\ nextchar' = Got.nextchar
    /\ UNCHANGED <<argv, posixly_correct, options, exit_status, help, stderr>>
    /\ UNCHANGED rainVars

\* count_rain up to the loop: the buckets, the cursor and the first counter read.
\* main's command line is not in scope of count_rain and is dropped from the state.
CountRainSetup ==
    /\ pc = "count_rain"
    /\ \E count \in CounterValues :
          /\ last_event_counter' = count
          /\ reads' = <<count>>
    /\ buckets' = [i \in 1..BucketCount(options.interval) |-> 0]
    /\ inserter' = 0
    /\ pc' = "sleep"
    /\ argv' = <<>>
    /\ posixly_correct' = FALSE
    /\ optind' = 1
    /\ nextchar' = 0
    /\ UNCHANGED <<options, exit_status, help, stderr, events_per_hour, mm_per_hour,
                   is_open, file, console, events_log>>

\* one iteration of while (true)
Tick ==
    /\ pc = "sleep"
    /\ Len(events_log) < MaxTicks
    /\ \E new_event_counter \in CounterValues, opened \in BOOLEAN :
          LET events == Events(new_event_counter, last_event_counter)
              b      == Store(buckets, inserter, events)
              eph    == SumBuckets(b)
              mm     == MmPerHour(eph, options.sqcm, options.milliliter)
          IN  /\ reads' = Append(reads, new_event_counter)
              /\ events_log' = Append(events_log, events)
              /\ last_event_counter' = new_event_counter
              /\ buckets' = b
              /\ inserter' = Advance(inserter, Len(buckets))
              /\ events_per_hour' = eph
              /\ mm_per_hour' = mm
              /\ is_open' = IF FileEnabled(options)
                            THEN (IF opened THEN "yes" ELSE "no") ELSE "none"
              /\ IF OpenFails(options, opened)
                 THEN /\ stderr' = Append(stderr, [what |-> "Cannot open file",
                                                   value |-> options.filename])
                      /\ exit_status' = 1
                      /\ pc' = "exit"
                      /\ UNCHANGED <<file, console>>
                 ELSE /\ file' = IF FileEnabled(options) THEN WriteFile(file, mm)
                                 ELSE file
                      /\ console' = IF ConsoleEnabled(options)
                                    THEN PrintConsole(console, mm) ELSE console
                      /\ UNCHANGED <<stderr, exit_status, pc>>
    /\ UNCHANGED <<argv, posixly_correct, optind, nextchar, options, help>>

Next ==
    \/ OptionB
    \/ OptionC
    \/ OptionF
    \/ OptionHelp
    \/ OptionI
    \/ OptionP
    \/ OptionS
    \/ CallCountRain
    \/ CountRainSetup
    \/ Tick

Spec == Init /\ [][Next]_vars

----------------------------------------------------------------------------
(* Properties *)

ticks == Len(events_log)

started == reads # <<>>

Monotone(r) == \A j \in 1..(Len(r) - 1) : r[j] <= r[j + 1]

Max(a, b) == IF a >= b THEN a ELSE b

\* C1: after k ticks the cursor is at k mod (60 / interval); the delta of tick j,
\* for the min(k, bucket_count) most recent ticks, sits at index (j-1) mod
\* bucket_count; every slot not yet written is 0.
C1_CircularBuffer ==
    started =>
        LET n == 60 \div options.interval
        IN  /\ Len(buckets) = n
            /\ inserter = ticks % n
            /\ \A j \in 1..ticks :
                  j > ticks - n => buckets[((j - 1) % n) + 1] = events_log[j]
            /\ \A i \in 1..n : i > ticks => buckets[i] = 0

C1_Witness ==
    /\ started
    /\ Len(buckets) = 2
    /\ ticks = 3
    /\ events_log = <<1, 9, 0>>

\* C2: while the raw counter never decreases, events_per_hour of tick k is the
\* read of tick k minus the read of tick k - bucket_count, or minus the baseline
\* read during warm-up (k < bucket_count).
C2_TrailingWindow ==
    (started /\ ticks >= 1 /\ Monotone(reads)) =>
        LET n == 60 \div options.interval
        IN  events_per_hour = reads[ticks + 1] - reads[Max(ticks - n, 0) + 1]

C2_Witness ==
    /\ started
    /\ Len(buckets) = 2
    /\ reads = <<0, 1, 1, 10>>
    /\ events_per_hour = 9

\* C3: the rate written on a tick is events_per_hour * sqcm * milliliter / 1000
\* with two decimals kept: whenever that quotient has at most two decimals, it is
\* the value written (10 events, 127 sqcm, 5 ml: 6.35).
C3_RateKeepsFraction ==
    (started /\ ticks >= 1 /\ (file # <<>> \/ console # <<>>)) =>
        LET t == events_per_hour * options.sqcm * options.milliliter
            v == <<t \div 1000, (t % 1000) \div 10>>
        IN  t % 10 = 0 =>
               /\ file # <<>> => file[Len(file)].value = v
               /\ console # <<>> => console[Len(console)].value = v

\* C4: on a tick whose read is below the previous read the delta is the new read;
\* on every other tick it is new read minus previous read; it is never negative;
\* after every tick last_event_counter is the read of that tick.
C4_OverflowReset ==
    started =>
        /\ Len(reads) = ticks + 1
        /\ last_event_counter = reads[Len(reads)]
        /\ \A j \in 1..ticks :
              /\ events_log[j] >= 0
              /\ events_log[j] = IF reads[j + 1] < reads[j] THEN reads[j + 1]
                                 ELSE reads[j + 1] - reads[j]

C4_Witness ==
    /\ started
    /\ ticks >= 2
    /\ reads[ticks] = 10
    /\ reads[ticks + 1] = 1
    /\ events_log[ticks] = 1

\* C5: a tick ends the process iff a file name is configured and the open fails
\* on that tick; the exit status is then 1, the file and the console are left as
\* they were, and nothing runs afterwards; every other tick goes back to sleep.
C5_FatalOpenFailure ==
    [][ /\ pc = "sleep" =>
            /\ pc' = "exit" <=> (options.filename # <<>> /\ is_open' = "no")
            /\ pc' = "exit" =>
                  /\ exit_status' = 1
                  /\ file' = file
                  /\ console' = console
                  /\ Len(stderr') = Len(stderr) + 1
            /\ pc' # "exit" => (pc' = "sleep" /\ exit_status' = -1)
        /\ pc = "exit" => pc' = "exit" ]_vars

C5_Witness ==
    /\ pc = "exit"
    /\ is_open = "no"
    /\ options.print_to_console
    /\ ticks = 3
    /\ Len(console) = 2
    /\ Len(file) = 1
    /\ exit_status = 1

\* C6: with the file sink enabled and every open successful, after each tick the
\* file holds exactly one line, the rate of that tick.
C6_FileHoldsOneLine ==
    (started /\ ticks >= 1 /\ options.filename # <<>> /\ pc = "sleep") =>
        /\ Len(file) = 1
        /\ file[1] = [value |-> Fixed2(mm_per_hour), suffix |-> ""]

C6_Witness ==
    /\ pc = "sleep"
    /\ options.filename # <<>>
    /\ options.print_to_console
    /\ ticks >= 2
    /\ console[ticks].value = console[ticks - 1].value
    /\ console[ticks].value # <<0, 0>>
    /\ file = <<[value |-> console[ticks].value, suffix |-> ""]>>

\* C7: -p takes no argument: the option loop ends as it does when the command
\* line is read with -p standing alone, as the help text documents it (same exit
\* status, or count_rain called with the same options).
C7_PTakesNoArgument ==
    (~started /\ pc \in {"count_rain", "exit"}) =>
        LET doc == ParseAll(argv, 1, 0, posixly_correct, HelpText, DefaultOptions)
        IN  /\ exit_status = doc.status
            /\ pc = "count_rain" => options = doc.options

\* C8: an option value outside its range ends the process with status 1 and an
\* error line naming the value, before count_rain starts; count_rain only runs
\* with interval in 1..60, milliliter in 1..1000, sqcm in 1..10000, gpio in 0..63.
C8_RangesValidated ==
    LET bad(what, value) ==
            /\ pc = "exit"
            /\ exit_status = 1
            /\ ~started
            /\ stderr = <<[what |-> what, value |-> value]>>
    IN  /\ options.milliliter \notin 1..1000 => bad("milliliter", options.milliliter)
        /\ options.gpio_pin \notin 0..63 => bad("gpio", options.gpio_pin)
        /\ options.interval \notin 1..60 => bad("interval", options.interval)
        /\ options.sqcm \notin 1..10000 => bad("square centimeters", options.sqcm)

C8_Witness ==
    /\ pc = "exit"
    /\ exit_status = 1
    /\ options.interval = 61
    /\ argv = <<Opt("i"), Itoa(61)>>

\* C9: with no file name and no console output, no tick writes anything, the
\* process does not exit, and every tick still records the read, stores the delta
\* at the cursor and advances the cursor.
C9_NoSinks ==
    (started /\ options.filename = <<>> /\ ~options.print_to_console) =>
        LET n == Len(buckets)
        IN  /\ pc = "sleep"
            /\ exit_status = -1
            /\ file = <<>>
            /\ console = <<>>
            /\ stderr = <<>>
            /\ Len(reads) = ticks + 1
            /\ last_event_counter = reads[ticks + 1]
            /\ inserter = ticks % n
            /\ ticks >= 1 => buckets[((ticks - 1) % n) + 1] = events_log[ticks]

C9_Witness ==
    /\ started
    /\ options.filename = <<>>
    /\ ~options.print_to_console
    /\ ticks = 3
    /\ events_log[3] = 9
    /\ pc = "sleep"

\* C10: the bucket count n = 60 / interval is in 1..60, the cursor is in bounds,
\* the window n * interval lies in (60 - interval, 60] and is 60 exactly when
\* interval divides 60.
C10_BucketCount ==
    started =>
        LET n == Len(buckets)
            i == options.interval
        IN  /\ i \in 1..60
            /\ n \in 1..60
            /\ inserter \in 0..(n - 1)
            /\ 60 - i < n * i
            /\ n * i <= 60
            /\ (n * i = 60) <=> (60 % i = 0)

C10_Witness ==
    /\ started
    /\ options.interval = 7
    /\ Len(buckets) = 8
    /\ ticks = 2
    /\ inserter = 2

====
